---- MODULE Spec2Model ----
(***************************************************************************)
(* memeoid: the meme request pipeline of package api.                      *)
(*                                                                         *)
(* Byte strings are sequences of character codes, so that sorting, letter  *)
(* case and percent-encoding are computed as Go computes them.  A SHA-1    *)
(* hex digest is kept symbolic, i.e. the hash is taken to be collision     *)
(* free on the inputs of the model.  A file name is the record             *)
(* [hex |-> h, ext |-> s]: the digest of b when h = <<b>> (no digest when  *)
(* h = <<>>), followed by the literal bytes s.                             *)
(***************************************************************************)
EXTENDS Integers, Sequences, FiniteSets, TLC

\* ------------------------------------------------------------------------
\* Bounds
\* ------------------------------------------------------------------------

\* number of concurrent meme requests
NumReqs == 2

\* longest query (number of name=value pairs) given to UID
MaxParams == 2

\* the frames of a source animation are at most this many
MaxFrames == 3

\* ------------------------------------------------------------------------
\* Byte strings
\* ------------------------------------------------------------------------

kFrom == <<102, 114, 111, 109>>                                 \* "from"
kTop == <<116, 111, 112>>                                       \* "top"
kBottom == <<98, 111, 116, 116, 111, 109>>                      \* "bottom"
kX == <<120>>                                                   \* "x"
kFirst == <<102, 105, 114, 115, 116>>                           \* "first"
kFirstCap == <<70, 105, 114, 115, 116>>                         \* "First"
kLast == <<108, 97, 115, 116>>                                  \* "last"
sEarth == <<97, 46, 103, 105, 102>>                             \* "a.gif"
sMissing == <<98, 46, 103, 105, 102>>                           \* "b.gif"
sA == <<97>>                                                    \* "a"
sACap == <<65>>                                                 \* "A"
sB == <<98>>                                                    \* "b"
sOne == <<49>>                                                  \* "1"
sHiThere == <<97, 32, 98>>                                      \* "a b"
sEmpty == <<>>                                                  \* ""
kWidth == <<119, 105, 100, 116, 104>>                           \* "width"
kHeight == <<104, 101, 105, 103, 104, 116>>                     \* "height"
sTwenty == <<50, 48>>                                           \* "20"
sZero == <<48>>                                                 \* "0"
sMinusFive == <<45, 53>>                                        \* "-5"

\* byte-wise order of Go strings (sort.Strings)
StrLess(a, b) ==
    \E i \in 1..(Len(a) + 1) :
        /\ i <= Len(b)
        /\ \A j \in 1..(i - 1) : a[j] = b[j]
        /\ (i = Len(a) + 1 \/ a[i] < b[i])

\* net/url shouldEscape(c, encodeQueryComponent): everything except
\* letters, digits and - _ . ~ is escaped
ShouldEscape(c) ==
    ~ (\/ c \in 48..57 \/ c \in 65..90 \/ c \in 97..122
       \/ c \in {45, 95, 46, 126})

UpperHex == <<48, 49, 50, 51, 52, 53, 54, 55, 56, 57, 65, 66, 67, 68, 69, 70>>

EscapeByte(c) ==
    IF ~ ShouldEscape(c) THEN <<c>>
    ELSE IF c = 32 THEN <<43>>
    ELSE <<37, UpperHex[(c \div 16) + 1], UpperHex[(c % 16) + 1]>>

RECURSIVE QueryEscape(_)
QueryEscape(s) ==
    IF s = <<>> THEN <<>> ELSE EscapeByte(Head(s)) \o QueryEscape(Tail(s))

\* ------------------------------------------------------------------------
\* The query of a request: r.URL.Query(), Values.Get, Values.Encode
\* A raw query is the sequence of its decoded <<name, value>> pairs in the
\* order in which they appear in the URL.
\* ------------------------------------------------------------------------

RECURSIVE ValuesOf(_, _)
ValuesOf(raw, k) ==
    IF raw = <<>> THEN <<>>
    ELSE IF Head(raw)[1] = k THEN <<Head(raw)[2]>> \o ValuesOf(Tail(raw), k)
    ELSE ValuesOf(Tail(raw), k)

\* url.Values: name -> the values given for it, in order of appearance
Query(raw) ==
    [k \in {raw[i][1] : i \in DOMAIN raw} |-> ValuesOf(raw, k)]

\* Values.Get: the first value of the name, "" when the name is absent
Get(v, k) == IF k \in DOMAIN v THEN v[k][1] ELSE sEmpty

RECURSIVE SortStrings(_)
SortStrings(S) ==
    IF S = {} THEN <<>>
    ELSE LET m == CHOOSE x \in S : \A y \in S \ {x} : StrLess(x, y)
         IN <<m>> \o SortStrings(S \ {m})

\* name=value&name=value ... of a sequence of pairs, both sides escaped
RECURSIVE EncodePairs(_)
EncodePairs(ps) ==
    IF ps = <<>> THEN <<>>
    ELSE LET p == QueryEscape(Head(ps)[1]) \o <<61>> \o QueryEscape(Head(ps)[2])
         IN IF Len(ps) = 1 THEN p ELSE p \o <<38>> \o EncodePairs(Tail(ps))

RECURSIVE PairsInOrder(_, _)
PairsInOrder(v, keys) ==
    IF keys = <<>> THEN <<>>
    ELSE [i \in 1..Len(v[Head(keys)]) |-> <<Head(keys), v[Head(keys)][i]>>]
         \o PairsInOrder(v, Tail(keys))

\* Values.Encode: "URL encoded" form sorted by key
Encode(v) == EncodePairs(PairsInOrder(v, SortStrings(DOMAIN v)))

\* ------------------------------------------------------------------------
\* Identity
\* ------------------------------------------------------------------------

\* crypto/sha1 followed by fmt.Sprintf("%x", bs)
Sha1Hex(b) == [hex |-> <<b>>, ext |-> <<>>]

\* a string of literal bytes used as a file name
Str(bytes) == [hex |-> <<>>, ext |-> bytes]

\* strings.ToLower on ASCII
ToLower(s) == [i \in 1..Len(s) |-> IF s[i] \in 65..90 THEN s[i] + 32 ELSE s[i]]

\* a slip: the query folded to lower case before it is hashed
CreateUID_FoldCase(queryString) == Sha1Hex(ToLower(queryString))

CreateUID(queryString) == Sha1Hex(queryString)

createUID(queryString) == Sha1Hex(queryString)

\* a slip: the digest of the query as it was sent, unsorted
UID_RawQuery(raw) == CreateUID(EncodePairs(raw))

\* a slip: the identity taken from the fields of the meme request alone,
\* as the comment above UID describes it
UID_CaptionsOnly(raw) ==
    CreateUID(EncodePairs(<<<<kBottom, Get(Query(raw), kBottom)>>,
                            <<kFrom, Get(Query(raw), kFrom)>>,
                            <<kTop, Get(Query(raw), kTop)>> >>))

\* ApiHandler.UID
UID(raw) == CreateUID(Encode(Query(raw)))

\* MemeHandler.UID
MemeHandler_UID(raw) == Sha1Hex(Encode(Query(raw)))

\* fmt.Sprintf("%s.gif", uid)
GifName(uid) == [uid EXCEPT !.ext = @ \o <<46, 103, 105, 102>>]

\* ------------------------------------------------------------------------
\* Requests and their validation
\* ------------------------------------------------------------------------

\* newMemeRequest: the three fields read from the query
MemeRequestOf(raw) ==
    LET v == Query(raw)
    IN [From |-> Get(v, kFrom), Top |-> Get(v, kTop), Bottom |-> Get(v, kBottom)]

\* ozzo-validation Required on a string: the string is not empty
Required(s) == s # sEmpty

\* a slip: both captions required, whatever the other one holds
Validate_BothCaptions(r) ==
    Required(r.From) /\ Required(r.Top) /\ Required(r.Bottom)

\* a slip: the captions not validated at all
Validate_SourceOnly(r) == Required(r.From)

\* memeRequest.Validate: TRUE when ValidateStruct returns no error
Validate(r) ==
    /\ Required(r.From)
    /\ (r.Bottom = sEmpty => Required(r.Top))
    /\ (r.Top = sEmpty => Required(r.Bottom))

\* newPreviewRequest: the three fields read from the query
PreviewRequestOf(raw) ==
    LET v == Query(raw)
    IN [From |-> Get(v, kFrom), Width |-> Get(v, kWidth), Height |-> Get(v, kHeight)]

IsDigit(c) == c \in 48..57

\* ozzo-validation is.Int (govalidator.IsInt) on a string that is not empty:
\* an optional sign, then 0 or a number without leading zero
IsInt(s) ==
    LET d == IF s # <<>> /\ s[1] \in {43, 45} THEN Tail(s) ELSE s
    IN /\ d # <<>>
       /\ \A i \in DOMAIN d : IsDigit(d[i])
       /\ (d[1] = 48 => Len(d) = 1)

\* a slip: the height only required, not checked to be a number
PreviewValidate_HeightAny(r) ==
    /\ Required(r.From)
    /\ Required(r.Width) /\ IsInt(r.Width)
    /\ Required(r.Height)

\* previewRequest.Validate: TRUE when ValidateStruct returns no error
PreviewValidate(r) ==
    /\ Required(r.From)
    /\ Required(r.Width) /\ IsInt(r.Width)
    /\ Required(r.Height) /\ IsInt(r.Height)

RECURSIVE DigitsValue(_)
DigitsValue(s) ==
    IF s = <<>> THEN 0
    ELSE 10 * DigitsValue(SubSeq(s, 1, Len(s) - 1)) + (s[Len(s)] - 48)

\* strconv.ParseUint(s, 10, 0): <<value, err>>; digits only, no sign; the
\* value is 0 when err is not nil (the numbers of the model are far from
\* the range error)
ParseUint(s) ==
    IF s # <<>> /\ \A i \in DOMAIN s : IsDigit(s[i])
    THEN <<DigitsValue(s), "nil">>
    ELSE <<0, "ErrSyntax">>

\* previewRequest.toUint: the error of ParseUint is dropped
toUint(field) == ParseUint(field)[1]

\* the requests sent to the preview endpoint: query parameters for
\* ApiHandler, the form value "from" and the route variables width and
\* height for MemeHandler
PreviewQueries ==
    { <<<<kFrom, sEarth>>, <<kWidth, sTwenty>>, <<kHeight, sTwenty>>>>,
      <<<<kFrom, sEarth>>, <<kWidth, sTwenty>>, <<kHeight, sA>>>>,
      <<<<kFrom, sEarth>>, <<kHeight, sTwenty>>>>,
      <<<<kWidth, sTwenty>>, <<kHeight, sTwenty>>>>,
      <<<<kFrom, sMissing>>, <<kWidth, sTwenty>>, <<kHeight, sTwenty>>>>,
      <<<<kFrom, sEarth>>, <<kWidth, sZero>>, <<kHeight, sTwenty>>>>,
      <<<<kFrom, sEarth>>, <<kWidth, sTwenty>>, <<kHeight, sMinusFive>>>> }

\* the queries sent to the meme endpoint
MemeQueries ==
    { <<<<kFrom, sEarth>>, <<kTop, sA>>>>,
      <<<<kTop, sA>>, <<kFrom, sEarth>>>>,
      <<<<kFrom, sEarth>>, <<kTop, sA>>, <<kX, sOne>>>>,
      <<<<kFrom, sEarth>>, <<kBottom, sHiThere>>>>,
      <<<<kFrom, sEarth>>>>,
      <<<<kTop, sA>>, <<kBottom, sB>>>>,
      <<<<kFrom, sMissing>>, <<kTop, sA>>>> }

\* the queries given to UID alone
UIDNames == {kFirst, kFirstCap, kLast}
UIDValues == {sA, sACap}
UIDQueries ==
    UNION {[1..n -> UIDNames \X UIDValues] : n \in 0..MaxParams}

\* ------------------------------------------------------------------------
\* State
\* ------------------------------------------------------------------------

Reqs == 1..NumReqs

VARIABLES
    impl,        \* the implementation serving the requests
    pc,          \* pc[q]: where request q stands
    raw,         \* raw[q]: the query of request q
    srcImgPath,  \* srcImgPath[q]: <<path>> returned by the source lookup
    srcImgExists,\* srcImgExists[q]: <<bool>> returned by the source lookup
    uid,         \* uid[q]: <<identity>> once computed
    dstGifPath,  \* dstGifPath[q]: <<path>> returned by the cache lookup
    gifExists,   \* gifExists[q]: <<bool>> returned by the cache lookup
    resp,        \* resp[q]: <<response>> once the request has ended
    fs,          \* fs[path]: <<file>> when the file system holds path
    log,         \* log[q]: the gateway and engine calls made for q, in order
    before,      \* before[q]: the requests that had succeeded when q arrived
    seen,        \* seen[q]: <<fs[path]>> as it was at the cache lookup of q
    gwErr,       \* gwErr[q]: the errors the gateway's lookups returned to q
    engineErr,   \* engineErr[q]: <<bool>>, whether the engine returned an error
    previewImage,\* previewImage[q]: <<imageName>> returned by getImageFromRequest
    thumb,       \* thumb[q]: <<dimensions>> handed to the engine's Preview
    reqA, reqB,  \* two queries handed to UID
    uidA, uidB,  \* <<identity>> of each
    queryString, \* the string handed to CreateUID
    bs,          \* the digest that hasher.Sum(nil) returns for it
    hexUID,      \* <<[uid, err]>>, what CreateUID returned
    srcDir,      \* the source directory: whether it can be read, its entries
    accept,      \* accept[q]: <<the values of the Accept header>> of q
    gifs,        \* gifs[q]: <<the pair that the listing returned>>
    route,       \* route[q]: <<the page handler that serves q>>
    rendered,    \* rendered[q]: <<what ExecuteTemplate came to>>
    genPc,       \* where the engine's GenerateMeme stands
    genSrc,      \* the source animation handed to it
    genCaps,     \* the captions handed to it
    slots,       \* slots[i]: <<frame>> once a captioned frame was put at i
    order,       \* the indices of the frames, in the order their tasks ended
    genOut,      \* <<the output animation>>
    findArg,     \* <<the path handed to FsImageGateway.find>>
    findRet,     \* <<what Stat returned, and find, and the caller's exists>>
    fsOrig,      \* the file system that the original MemeHandler works on
    origResp     \* <<the response that the original MemeHandler wrote>>

vars == <<impl, pc, raw, srcImgPath, srcImgExists, uid, dstGifPath, gifExists,
          resp, fs, log, before, seen, gwErr, engineErr, previewImage, thumb,
          reqA, reqB, uidA, uidB, queryString, bs, hexUID,
          srcDir, accept, gifs, route, rendered,
          genPc, genSrc, genCaps, slots, order, genOut, findArg, findRet,
          fsOrig, origResp>>

reqVars == <<pc, raw, srcImgPath, srcImgExists, uid, dstGifPath, gifExists, resp,
             fs, log, before, seen, gwErr, engineErr, previewImage, thumb>>
\* what only the preview handlers write
previewVars == <<previewImage, thumb>>
\* what only the meme pipeline writes
memeVars == <<uid, dstGifPath, gifExists, fs, before, seen, gwErr>>
uidVars == <<reqA, reqB, uidA, uidB>>
\* what only CreateUID, taken alone, reads and writes
digestVars == <<queryString, bs, hexUID>>
\* what only the page handlers read and write
pageVars == <<srcDir, accept, gifs, route, rendered>>
\* what only the compositing engine reads and writes
frameVars == <<genPc, genSrc, genCaps, slots, order, genOut>>
\* what the meme, preview and identity models leave alone
\* what only find, taken alone, reads and writes
findVars == <<findArg, findRet>>
\* what only the original handler, run for comparison, reads and writes
origVars == <<fsOrig, origResp>>
sideVars == <<digestVars, pageVars, frameVars, findVars, origVars>>

\* ------------------------------------------------------------------------
\* The file system behind FsImageGateway
\* ------------------------------------------------------------------------

\* the images of the source directory (srcPath) when the server starts
SrcFiles == {sEarth}

\* path.Join(dir, name)
Join(dir, name) == [dir |-> dir, name |-> name]

\* the path ""
EmptyPath == Join("", Str(sEmpty))

\* every path the requests of the model can name
Paths ==
    LET valid == {r \in MemeQueries : Validate(MemeRequestOf(r))}
    IN {Join("srcPath", Str(MemeRequestOf(r).From)) : r \in valid}
       \cup UNION {{Join("dstPath", UID(r)), Join("dstPath", GifName(UID(r)))} :
                      r \in valid}

\* an animation: the source image and the captions drawn on it
Gif(from, top, bottom) == [From |-> from, Top |-> top, Bottom |-> bottom]

Exists(path) == path \in DOMAIN fs /\ fs[path] # <<>>

\* os.Stat: nil, ENOENT for a file that is not there, or (fault) an error
\* of another kind such as EACCES, whether the file is there or not
OsStat(path, fault) ==
    IF fault THEN "EACCES" ELSE IF Exists(path) THEN "nil" ELSE "ENOENT"

\* a slip: every error of Stat taken to say that the file does not exist
IsNotExist_AnyError(err) == err # "nil"

\* os.IsNotExist
IsNotExist(err) == err = "ENOENT"

\* a slip: every error of Stat taken for a missing file
find_AnyError(imgFullPath, fault) ==
    <<imgFullPath, OsStat(imgFullPath, fault)>>

\* FsImageGateway.find: <<path, err>>
find(imgFullPath, fault) ==
    IF IsNotExist(OsStat(imgFullPath, fault))
    THEN <<imgFullPath, OsStat(imgFullPath, fault)>>
    ELSE <<imgFullPath, "nil">>

FindImage(imageName, fault) == find(Join("srcPath", Str(imageName)), fault)

\* a slip: the meme looked up in the source directory
FindMeme_InSrcPath(memeUID, fault) == find(Join("srcPath", memeUID), fault)

FindMeme(memeUID, fault) == find(Join("dstPath", memeUID), fault)

\* a slip: Save appends ".gif" to the path it is given before it creates
\* the file
OsCreate_WithGif(imgFullPath, content) ==
    [p \in DOMAIN fs |->
        IF p = [imgFullPath EXCEPT !.name = GifName(@)]
        THEN <<[complete |-> FALSE, gif |-> content]>> ELSE fs[p]]

\* os.Create(imgFullPath): the file system after the file was created, or
\* truncated when it was there; content is what the caller is about to write
OsCreate(imgFullPath, content) ==
    [p \in DOMAIN fs |->
        IF p = imgFullPath THEN <<[complete |-> FALSE, gif |-> content]>> ELSE fs[p]]

\* gif.EncodeAll(out, content) and the deferred out.Close(): the file system
\* after the frames were streamed into the open file, all of them (ok) or
\* only some
EncodeAll(imgFullPath, content, ok) ==
    [p \in DOMAIN fs |->
        IF p = imgFullPath THEN <<[complete |-> ok, gif |-> content]>> ELSE fs[p]]

\* ------------------------------------------------------------------------
\* The handler
\* ------------------------------------------------------------------------

\* no request has arrived
NoRequest ==
    /\ pc = [q \in Reqs |-> "idle"]
    /\ raw = [q \in Reqs |-> <<>>]
    /\ srcImgPath = [q \in Reqs |-> <<>>]
    /\ uid = [q \in Reqs |-> <<>>]
    /\ dstGifPath = [q \in Reqs |-> <<>>]
    /\ gifExists = [q \in Reqs |-> <<>>]
    /\ resp = [q \in Reqs |-> <<>>]
    /\ log = [q \in Reqs |-> <<>>]
    /\ before = [q \in Reqs |-> {}]
    /\ seen = [q \in Reqs |-> <<>>]
    /\ gwErr = [q \in Reqs |-> <<>>]
    /\ srcImgExists = [q \in Reqs |-> <<>>]
    /\ engineErr = [q \in Reqs |-> <<>>]
    /\ previewImage = [q \in Reqs |-> <<>>]
    /\ thumb = [q \in Reqs |-> <<>>]

Idle ==
    /\ NoRequest
    /\ fs = [p \in Paths |->
               IF p.dir = "srcPath" /\ p.name \in {Str(n) : n \in SrcFiles}
               THEN <<[complete |-> TRUE, gif |-> Gif(p.name.ext, sEmpty, sEmpty)]>>
               ELSE <<>>]

\* nothing has been handed to CreateUID
DigestIdle == queryString = <<>> /\ bs = <<>> /\ hexUID = <<>>

\* no page has been asked for
PagesIdle ==
    /\ accept = [q \in Reqs |-> <<>>]
    /\ gifs = [q \in Reqs |-> <<>>]
    /\ route = [q \in Reqs |-> <<>>]
    /\ rendered = [q \in Reqs |-> <<>>]

\* the source directory as Idle has it, and no page asked for
NoPages == srcDir = [readable |-> TRUE, names |-> SrcFiles] /\ PagesIdle

\* the engine has not been called
EngineIdle ==
    /\ genPc = "idle"
    /\ genSrc = <<>> /\ genCaps = <<>>
    /\ slots = <<>> /\ order = <<>> /\ genOut = <<>>

\* find has not been called
FindIdle == findArg = <<>> /\ findRet = <<>>

\* the original handler has not been set up
OrigIdle == fsOrig = <<>> /\ origResp = <<>>

SideIdle == DigestIdle /\ NoPages /\ EngineIdle /\ FindIdle /\ OrigIdle

Init ==
    /\ impl \in {"ApiHandler", "MemeService"}
    /\ Idle
    /\ SideIdle
    /\ reqA = <<>> /\ reqB = <<>> /\ uidA = <<>> /\ uidB = <<>>

\* the request has ended with a redirect (ApiHandler) or a nil error
Succeeded(q) ==
    resp[q] # <<>> /\ resp[q][1].status \in {"PermanentRedirect", "nil"}

\* a slip: the response written, and the handler blocks instead of returning
Finish_NoReturn(q, status, ref) ==
    /\ pc' = [pc EXCEPT ![q] = "blocked"]
    /\ resp' = [resp EXCEPT ![q] = <<[status |-> status, ref |-> ref]>>]

\* the response that ends request q
Finish(q, status, ref) ==
    /\ pc' = [pc EXCEPT ![q] = "done"]
    /\ resp' = [resp EXCEPT ![q] = <<[status |-> status, ref |-> ref]>>]

\* http.Error(w, ..., code) in the handler, return "", err in the service
Fail(q, code) ==
    Finish(q, IF impl = "MemeService" THEN "error" ELSE code, <<>>)

\* a slip: after a fresh generation the redirect names the file as Save was
\* given it
Done_MissBareName(q, u) ==
    IF impl = "MemeService"
    THEN Finish(q, "nil", <<>>)
    ELSE Finish(q, "PermanentRedirect",
                <<[url |-> "MemeURL",
                   name |-> IF gifExists[q] = <<FALSE>> THEN u ELSE GifName(u)]>>)

\* http.Redirect(w, r, "/MemeURL/uid.gif", 308) in the handler,
\* return "", nil in the service
Done(q, u) ==
    IF impl = "MemeService"
    THEN Finish(q, "nil", <<>>)
    ELSE Finish(q, "PermanentRedirect", <<[url |-> "MemeURL", name |-> GifName(u)]>>)

\* the identity of the request, as each implementation computes it
IdentityOf(r) ==
    IF impl = "MemeService" THEN createUID(Encode(Query(r))) ELSE UID(r)

\* the name handed to FindMeme
MemeName(u) == IF impl = "MemeService" THEN GifName(u) ELSE u

\* a slip: the error of the gateway dropped, the file taken to be there
ErrIsNil_Dropped(err) == TRUE

\* exists := true; if err != nil { exists = false }
ErrIsNil(err) == err = "nil"

\* a slip: the request goes on although the source was not found
SourceMissing_Never(exists) == FALSE

\* if !srcImgExists { http.Error(w, "Image not found", 404); return }
SourceMissing(exists) == ~ exists

\* a slip: the meme generated whatever the lookup says
NeedsGeneration_Always(exists) == TRUE

\* a slip: the condition inverted, the meme generated on a hit only
NeedsGeneration_OnHit(exists) == exists

\* if !gifExists { generateMeme(...) }
NeedsGeneration(exists) == ~ exists

\* a slip: the error of the engine dropped, the meme saved all the same
EngineFailed_Swallowed(err) == FALSE

\* if err != nil { return err } after img.MemeFromFile and meme.Generate
EngineFailed(err) == err

\* a slip: the error of Save dropped, the request answered as if saved
SaveFailed_Swallowed(err) == FALSE

\* if err != nil { return err } after Save
SaveFailed(err) == err

\* The request arrives: newMemeRequest, then Meme.ImageExists ->
\* FsImageGateway.FindImage.  The source directory is only ever read, so
\* the lookup is taken in the same step as the arrival.  Requests are
\* numbered in the order in which they arrive.
MemeFromRequest(q) ==
    /\ pc[q] = "idle"
    /\ \A p \in Reqs : p < q => pc[p] # "idle"
    /\ \E r \in MemeQueries :
        /\ impl = "MemeService" => Validate(MemeRequestOf(r))
        /\ raw' = [raw EXCEPT ![q] = r]
        /\ before' = [before EXCEPT ![q] = {p \in Reqs : Succeeded(p)}]
        /\ IF ~ Validate(MemeRequestOf(r))
           THEN /\ Fail(q, "BadRequest")
                /\ UNCHANGED <<log, srcImgPath, srcImgExists, gwErr>>
           ELSE /\ log' = [log EXCEPT ![q] = Append(@, "FindImage")]
                /\ \E fault \in BOOLEAN :
                     LET found == FindImage(MemeRequestOf(r).From, fault)
                     IN /\ srcImgPath' = [srcImgPath EXCEPT ![q] = <<found[1]>>]
                        /\ gwErr' = [gwErr EXCEPT ![q] = Append(@, found[2])]
                        /\ srcImgExists' =
                              [srcImgExists EXCEPT ![q] = <<ErrIsNil(found[2])>>]
                        /\ IF SourceMissing(ErrIsNil(found[2]))
                           THEN Fail(q, "NotFound")
                           ELSE /\ pc' = [pc EXCEPT ![q] = "MemeExists"]
                                /\ UNCHANGED resp
    /\ UNCHANGED <<impl, uid, dstGifPath, gifExists, fs, seen, engineErr,
                   previewVars, uidVars, sideVars>>

\* UID, then Meme.MemeExists -> FsImageGateway.FindMeme
MemeExists(q) ==
    /\ pc[q] = "MemeExists"
    /\ LET u == IdentityOf(raw[q])
       IN \E fault \in BOOLEAN :
            LET found == FindMeme(MemeName(u), fault)
            IN /\ uid' = [uid EXCEPT ![q] = <<u>>]
               /\ dstGifPath' = [dstGifPath EXCEPT ![q] = <<found[1]>>]
               /\ gwErr' = [gwErr EXCEPT ![q] = Append(@, found[2])]
               /\ gifExists' = [gifExists EXCEPT ![q] = <<ErrIsNil(found[2])>>]
               /\ seen' = [seen EXCEPT ![q] =
                             <<IF found[1] \in DOMAIN fs THEN fs[found[1]] ELSE <<>> >>]
               /\ IF NeedsGeneration(ErrIsNil(found[2]))
                  THEN /\ pc' = [pc EXCEPT ![q] = "generateMeme"]
                       /\ UNCHANGED resp
                  ELSE Done(q, u)
    /\ log' = [log EXCEPT ![q] = Append(@, "FindMeme")]
    /\ UNCHANGED <<impl, raw, srcImgPath, srcImgExists, fs, before, engineErr,
                   previewVars, uidVars, sideVars>>

\* a slip: generateMeme hands Save the path of the source in place of the
\* destination
GenerateMeme_OverSource(q) ==
    /\ pc[q] = "generateMeme"
    /\ \E engineOk \in BOOLEAN, createOk \in BOOLEAN :
        /\ engineOk => Exists(srcImgPath[q][1])
        /\ engineErr' = [engineErr EXCEPT ![q] = <<~ engineOk>>]
        /\ IF EngineFailed(~ engineOk)
           THEN /\ log' = [log EXCEPT ![q] = Append(@, "Engine")]
                /\ Fail(q, "InternalServerError")
                /\ UNCHANGED fs
           ELSE /\ log' = [log EXCEPT ![q] = @ \o <<"Engine", "Save">>]
                /\ IF createOk
                   THEN /\ fs' = OsCreate(srcImgPath[q][1], MemeRequestOf(raw[q]))
                        /\ pc' = [pc EXCEPT ![q] = "EncodeAll"]
                        /\ UNCHANGED resp
                   ELSE /\ Fail(q, "InternalServerError")
                        /\ UNCHANGED fs
    /\ UNCHANGED <<impl, raw, srcImgPath, srcImgExists, uid, dstGifPath,
                   gifExists, before, seen, gwErr, previewVars, uidVars, sideVars>>

\* a slip: the destination looked up once more before generating, and the
\* generation skipped when another request has created the file meanwhile
GenerateMeme_Recheck(q) ==
    /\ pc[q] = "generateMeme"
    /\ IF Exists(dstGifPath[q][1])
       THEN /\ Done(q, uid[q][1])
            /\ UNCHANGED <<fs, log, engineErr>>
       ELSE \E engineOk \in BOOLEAN, createOk \in BOOLEAN :
            /\ engineOk => Exists(srcImgPath[q][1])
            /\ engineErr' = [engineErr EXCEPT ![q] = <<~ engineOk>>]
            /\ IF ~ engineOk
               THEN /\ log' = [log EXCEPT ![q] = Append(@, "Engine")]
                    /\ Fail(q, "InternalServerError")
                    /\ UNCHANGED fs
               ELSE /\ log' = [log EXCEPT ![q] = @ \o <<"Engine", "Save">>]
                    /\ IF createOk
                       THEN /\ fs' = OsCreate(dstGifPath[q][1], MemeRequestOf(raw[q]))
                            /\ pc' = [pc EXCEPT ![q] = "EncodeAll"]
                            /\ UNCHANGED resp
                       ELSE /\ Fail(q, "InternalServerError")
                            /\ UNCHANGED fs
    /\ UNCHANGED <<impl, raw, srcImgPath, srcImgExists, uid, dstGifPath,
                   gifExists, before, seen, gwErr, previewVars, uidVars, sideVars>>

\* generateMeme: img.MemeFromFile and meme.Generate (the engine fails when
\* it cannot read or decode the source, or while it draws), then the first
\* half of FsImageGateway.Save: os.Create(imgFullPath) creates the file or
\* truncates the one that is there
GenerateMeme(q) ==
    /\ pc[q] = "generateMeme"
    /\ \E engineOk \in BOOLEAN, createOk \in BOOLEAN :
        /\ engineOk => Exists(srcImgPath[q][1])
        /\ engineErr' = [engineErr EXCEPT ![q] = <<~ engineOk>>]
        /\ IF EngineFailed(~ engineOk)
           THEN /\ log' = [log EXCEPT ![q] = Append(@, "Engine")]
                /\ Fail(q, "InternalServerError")
                /\ UNCHANGED fs
           ELSE /\ log' = [log EXCEPT ![q] = @ \o <<"Engine", "Save">>]
                /\ IF createOk
                   THEN /\ fs' = OsCreate(dstGifPath[q][1], MemeRequestOf(raw[q]))
                        /\ pc' = [pc EXCEPT ![q] = "EncodeAll"]
                        /\ UNCHANGED resp
                   ELSE /\ IF SaveFailed(TRUE)
                           THEN Fail(q, "InternalServerError")
                           ELSE Done(q, uid[q][1])
                        /\ UNCHANGED fs
    /\ UNCHANGED <<impl, raw, srcImgPath, srcImgExists, uid, dstGifPath,
                   gifExists, before, seen, gwErr, previewVars, uidVars, sideVars>>

\* FsImageGateway.Save, second half: gif.EncodeAll(out, content) streams the
\* frames into the open file, then the deferred Close; the request ends
SaveEncode(q) ==
    /\ pc[q] = "EncodeAll"
    /\ \E ok \in BOOLEAN :
        /\ fs' = EncodeAll(dstGifPath[q][1], MemeRequestOf(raw[q]), ok)
        /\ IF SaveFailed(~ ok)
           THEN Fail(q, "InternalServerError")
           ELSE Done(q, uid[q][1])
    /\ UNCHANGED <<impl, raw, srcImgPath, srcImgExists, uid, dstGifPath,
                   gifExists, log, before, seen, gwErr, engineErr, previewVars,
                   uidVars, sideVars>>

Next ==
    \E q \in Reqs :
        \/ MemeFromRequest(q)
        \/ MemeExists(q)
        \/ GenerateMeme(q)
        \/ SaveEncode(q)

Spec == Init /\ [][Next]_vars

\* The same, with every call returning: a request that has arrived is a
\* goroutine that runs on, so each of its next steps is eventually taken.
\* Nothing is assumed of the arrival of requests.  The lookup has no guard
\* but its place in the handler and always appends to the log, so
\* ENABLED <<MemeExists(q)>>_vars is pc[q] = "MemeExists", and its weak
\* fairness WF_vars(MemeExists(q)) is written out with it.
Returns ==
    \A q \in Reqs :
        /\ []<>(pc[q] # "MemeExists") \/ []<><<MemeExists(q)>>_vars
        /\ WF_vars(GenerateMeme(q))
        /\ WF_vars(SaveEncode(q))

SpecReturns == Init /\ [][Next]_vars /\ Returns

\* ------------------------------------------------------------------------
\* The preview handlers: ApiHandler.Preview, MemeService.GeneratePreview
\* and MemeHandler.Preview.  resp[q] holds what the handler wrote to the
\* response, in order.
\* ------------------------------------------------------------------------

InitPreview ==
    /\ impl \in {"ApiHandler", "MemeService", "MemeHandler"}
    /\ Idle
    /\ SideIdle
    /\ reqA = <<>> /\ reqB = <<>> /\ uidA = <<>> /\ uidB = <<>>

\* http.Error(w, ..., code), w.Write(...) or jpeg.Encode(w, ...): one more
\* write to the response of q
Write(q, status, ref) ==
    resp' = [resp EXCEPT ![q] = Append(@, [status |-> status, ref |-> ref])]

\* http.Error(w, ..., code) in the handlers, return nil, err in the service
PreviewError(q, code) ==
    Write(q, IF impl = "MemeService" THEN "error" ELSE code, <<>>)

\* a slip: the thumbnail looked up among the generated memes
PreviewLookup_InCache(from, fault) ==
    <<"FindMeme", FindMeme(Str(from), fault)>>

\* h.meme.ImageExists(req.From): the gateway call made and what it returns
PreviewLookup(from, fault) ==
    <<"FindImage", FindImage(from, fault)>>

\* MemeHandler.getImageFromRequest: <<imageName, code>>, the name it returns
\* ("" after an error) and the error it has written (or "nil")
getImageFromRequest(from, fault) ==
    IF from = sEmpty THEN <<sEmpty, "BadRequest">>
    ELSE IF IsNotExist(OsStat(Join("srcPath", Str(from)), fault))
    THEN <<sEmpty, "NotFound">>
    ELSE <<from, "nil">>

\* The preview request arrives.  ApiHandler.Preview and GeneratePreview:
\* newPreviewRequest, then Meme.ImageExists.  MemeHandler.Preview:
\* getImageFromRequest.
Preview(q) ==
    /\ pc[q] = "idle"
    /\ \A p \in Reqs : p < q => pc[p] # "idle"
    /\ \E r \in PreviewQueries, fault \in BOOLEAN :
        LET req == PreviewRequestOf(r)
            look == PreviewLookup(req.From, fault)
            got == getImageFromRequest(req.From, fault)
        IN /\ impl = "MemeService" => PreviewValidate(req)
           /\ raw' = [raw EXCEPT ![q] = r]
           /\ IF impl = "MemeHandler"
              THEN /\ previewImage' = [previewImage EXCEPT ![q] = <<got[1]>>]
                   /\ log' = [log EXCEPT ![q] =
                                 IF req.From = sEmpty THEN @ ELSE Append(@, "Stat")]
                   /\ IF got[2] # "nil"
                      THEN PreviewError(q, got[2])
                      ELSE UNCHANGED resp
                   /\ pc' = [pc EXCEPT ![q] = "imageName"]
                   /\ UNCHANGED <<srcImgPath, srcImgExists>>
              ELSE IF ~ PreviewValidate(req)
              THEN /\ ~ fault
                   /\ PreviewError(q, "BadRequest")
                   /\ pc' = [pc EXCEPT ![q] = "done"]
                   /\ UNCHANGED <<log, srcImgPath, srcImgExists, previewImage>>
              ELSE /\ log' = [log EXCEPT ![q] = Append(@, look[1])]
                   /\ srcImgPath' = [srcImgPath EXCEPT ![q] = <<look[2][1]>>]
                   /\ srcImgExists' =
                         [srcImgExists EXCEPT ![q] = <<look[2][2] = "nil">>]
                   /\ IF look[2][2] # "nil"
                      THEN /\ PreviewError(q, "NotFound")
                           /\ pc' = [pc EXCEPT ![q] = "done"]
                      ELSE /\ pc' = [pc EXCEPT ![q] = "SimpleTemplate"]
                           /\ UNCHANGED resp
                   /\ UNCHANGED previewImage
    /\ UNCHANGED <<impl, memeVars, engineErr, thumb, uidVars, sideVars>>

\* MemeHandler.Preview after getImageFromRequest: the second "Image not
\* found" and the return when imageName is "", else the two ParseUint,
\* each of which writes 400 on an error and goes on
PreviewParse(q) ==
    /\ pc[q] = "imageName"
    /\ LET req == PreviewRequestOf(raw[q])
           bad == [status |-> "BadRequest", ref |-> <<>>]
           werr == IF ParseUint(req.Width)[2] # "nil" THEN <<bad>> ELSE <<>>
           herr == IF ParseUint(req.Height)[2] # "nil" THEN <<bad>> ELSE <<>>
       IN IF previewImage[q][1] = sEmpty
          THEN /\ PreviewError(q, "NotFound")
               /\ pc' = [pc EXCEPT ![q] = "done"]
               /\ UNCHANGED srcImgPath
          ELSE /\ resp' = [resp EXCEPT ![q] = @ \o werr \o herr]
               /\ srcImgPath' = [srcImgPath EXCEPT ![q] =
                                   <<Join("srcPath", Str(previewImage[q][1]))>>]
               /\ pc' = [pc EXCEPT ![q] = "SimpleTemplate"]
    /\ UNCHANGED <<impl, raw, srcImgExists, log, memeVars, engineErr,
                   previewVars, uidVars, sideVars>>

\* img.SimpleTemplate and tpl.GetGif (they fail when the source cannot be
\* read or decoded), then Meme.Preview with the two dimensions and the
\* thumbnail written as image/jpeg (returned, by the service)
PreviewEngine(q) ==
    /\ pc[q] = "SimpleTemplate"
    /\ \E engineOk \in BOOLEAN :
        LET req == PreviewRequestOf(raw[q])
        IN /\ engineOk => Exists(srcImgPath[q][1])
           /\ engineErr' = [engineErr EXCEPT ![q] = <<~ engineOk>>]
           /\ IF ~ engineOk
              THEN /\ log' = [log EXCEPT ![q] = Append(@, "SimpleTemplate")]
                   /\ PreviewError(q, "InternalServerError")
                   /\ UNCHANGED thumb
              ELSE /\ log' = [log EXCEPT ![q] =
                                 @ \o <<"SimpleTemplate", "GetGif", "Preview">>]
                   /\ thumb' = [thumb EXCEPT ![q] =
                                   <<[Width |-> toUint(req.Width),
                                      Height |-> toUint(req.Height)]>>]
                   /\ Write(q, IF impl = "MemeService" THEN "nil"
                                ELSE IF resp[q] = <<>> THEN "OK" ELSE "body",
                             <<"image/jpeg">>)
    /\ pc' = [pc EXCEPT ![q] = "done"]
    /\ UNCHANGED <<impl, raw, srcImgPath, srcImgExists, memeVars, previewImage,
                   uidVars, sideVars>>

NextPreview ==
    \E q \in Reqs :
        \/ Preview(q)
        \/ PreviewParse(q)
        \/ PreviewEngine(q)

SpecPreview == InitPreview /\ [][NextPreview]_vars

\* ------------------------------------------------------------------------
\* UID on its own: two queries, each handed to UID once
\* ------------------------------------------------------------------------

InitUID ==
    /\ impl \in {"ApiHandler", "MemeHandler"}
    /\ Idle
    /\ SideIdle
    /\ reqA \in UIDQueries /\ reqB \in UIDQueries
    /\ uidA = <<>> /\ uidB = <<>>

CallUID ==
    /\ uidA = <<>>
    /\ uidA' = <<IF impl = "MemeHandler" THEN MemeHandler_UID(reqA) ELSE UID(reqA)>>
    /\ uidB' = <<IF impl = "MemeHandler" THEN MemeHandler_UID(reqB) ELSE UID(reqB)>>
    /\ UNCHANGED <<impl, reqVars, reqA, reqB, sideVars>>

NextUID == CallUID

SpecUID == InitUID /\ [][NextUID]_vars

\* ------------------------------------------------------------------------
\* CreateUID down to the bytes: Meme.CreateUID and MemeService.createUID.
\* Which bytes SHA-1 yields for an input is left open: the digest is any
\* value of sha1.Size bytes.
\* ------------------------------------------------------------------------

\* sha1.Size, the length of the slice that hasher.Sum(nil) returns
Size == 20

\* the digests tried: every byte value at every position, in constant
\* digests and in digests whose bytes go up in steps of 1 and of 13
Digests ==
    {[i \in 1..Size |-> (a + (i - 1) * d) % 256] : a \in 0..255, d \in {0, 1, 13}}

\* the strings hashed: the encoded queries of the requests, and ""
DigestInputs == {Encode(Query(r)) : r \in MemeQueries} \cup {sEmpty}

\* hasher.Write(p): <<n, err>>; a hash.Hash never returns an error
HasherWrite(p) == <<Len(p), "nil">>

\* the digit that %x prints for a value below 16
HexDigit(n) == IF n < 10 THEN 48 + n ELSE 87 + n

\* a slip: each byte printed with %x on its own, without the leading zero
RECURSIVE SprintfHex_Unpadded(_)
SprintfHex_Unpadded(b) ==
    IF b = <<>> THEN <<>>
    ELSE (IF Head(b) < 16 THEN <<HexDigit(Head(b))>>
          ELSE <<HexDigit(Head(b) \div 16), HexDigit(Head(b) % 16)>>)
         \o SprintfHex_Unpadded(Tail(b))

\* fmt.Sprintf("%x", bs) of a byte slice: two lower-case digits per byte
RECURSIVE SprintfHex(_)
SprintfHex(b) ==
    IF b = <<>> THEN <<>>
    ELSE <<HexDigit(Head(b) \div 16), HexDigit(Head(b) % 16)>>
         \o SprintfHex(Tail(b))

InitDigest ==
    /\ impl \in {"ApiHandler", "MemeService"}
    /\ Idle
    /\ reqA = <<>> /\ reqB = <<>> /\ uidA = <<>> /\ uidB = <<>>
    /\ NoPages
    /\ EngineIdle
    /\ FindIdle
    /\ OrigIdle
    /\ queryString \in DigestInputs
    /\ bs \in Digests
    /\ hexUID = <<>>

\* hasher.Write([]byte(queryString)), hasher.Sum(nil), fmt.Sprintf("%x", bs)
CallCreateUID ==
    /\ hexUID = <<>>
    /\ hexUID' =
          IF HasherWrite(queryString)[2] # "nil"
          THEN <<[uid |-> sEmpty, err |-> HasherWrite(queryString)[2]]>>
          ELSE <<[uid |-> SprintfHex(bs), err |-> "nil"]>>
    /\ UNCHANGED <<impl, reqVars, uidVars, queryString, bs, pageVars, frameVars,
                   findVars, origVars>>

NextDigest == CallCreateUID

SpecDigest == InitDigest /\ [][NextDigest]_vars

\* ------------------------------------------------------------------------
\* The pages: ApiHandler.ListGifs and Form over Meme and FsImageGateway,
\* MemeHandler.ListGifs and Form over its own allGifs and imageExists.
\* resp[q] holds what the handler wrote to the response, in order.
\* ------------------------------------------------------------------------

sBGif == <<98, 46, 71, 73, 70>>                       \* "b.GIF"
sCJpg == <<99, 46, 106, 112, 103>>                    \* "c.jpg"
sGifBare == <<103, 105, 102>>                         \* "gif"
sDotGif == <<46, 103, 105, 102>>                      \* ".gif"
sDotGifCap == <<46, 71, 73, 70>>                      \* ".GIF"
sSlashJson == <<47, 106, 115, 111, 110>>              \* "/json"
sTextJson == <<116, 101, 120, 116>> \o sSlashJson     \* "text/json"
sTextHtml == <<116, 101, 120, 116, 47, 104, 116, 109, 108>>  \* "text/html"
sAny == <<42, 47, 42>>                                \* "*/*"

\* the names an entry of the source directory can have
DirNames == {sEarth, sBGif, sCJpg, sGifBare}

\* the source directories tried: every set of entries, and a directory that
\* cannot be read because it is not there
Dirs ==
    {[readable |-> TRUE, names |-> N] : N \in SUBSET DirNames}
    \cup {[readable |-> FALSE, names |-> {}]}

\* the values of r.Header["Accept"]: none, one or two
AcceptHeaders ==
    {<<>>, <<sTextJson>>, <<sTextHtml>>, <<sAny>>, <<sTextHtml, sTextJson>>}

\* the queries sent to Form
FormQueries ==
    { <<>>,
      <<<<kFrom, sEmpty>>>>,
      <<<<kTop, sA>>>>,
      <<<<kFrom, sEarth>>>>,
      <<<<kFrom, sBGif>>, <<kTop, sA>>>>,
      <<<<kFrom, sMissing>>>> }

\* what ExecuteTemplate can come to: no error; an error before anything was
\* written to the response; an error after output has begun
TemplateOutcomes == {"nil", "errBeforeOutput", "errAfterOutput"}

\* filepath.Ext: the suffix that begins at the last dot, "" without a dot
Ext(name) ==
    LET dots == {i \in 1..Len(name) : name[i] = 46}
    IN IF dots = {} THEN sEmpty
       ELSE SubSeq(name, CHOOSE i \in dots : \A j \in dots : j <= i, Len(name))

\* strings.ToUpper on ASCII
ToUpper(s) == [i \in 1..Len(s) |-> IF s[i] \in 97..122 THEN s[i] - 32 ELSE s[i]]

\* strings.Contains
Contains(s, substr) ==
    \E i \in 1..(Len(s) + 1) :
        /\ i + Len(substr) - 1 <= Len(s)
        /\ SubSeq(s, i, i + Len(substr) - 1) = substr

\* ioutil.ReadDir: <<entries sorted by name, err>>
ReadDir(dir) ==
    IF dir.readable THEN <<SortStrings(dir.names), "nil">> ELSE <<<<>>, "ENOENT">>

\* a slip: the extension compared as it is written
IsGif_CaseSensitive(name) == Ext(name) = sDotGif

\* strings.ToUpper(filepath.Ext(name)) == ".GIF"
IsGif(name) == ToUpper(Ext(name)) = sDotGifCap

\* FsImageGateway.ListAllGifs: <<gifs, err>>; a nil slice is the empty
\* sequence
ListAllGifs(dir) ==
    IF ReadDir(dir)[2] # "nil"
    THEN <<<<>>, ReadDir(dir)[2]>>
    ELSE <<SelectSeq(ReadDir(dir)[1], IsGif), "nil">>

\* MemeHandler.allGifs: filepath.Ext(name) == ".gif"
allGifs(dir) ==
    IF ReadDir(dir)[2] # "nil"
    THEN <<<<>>, ReadDir(dir)[2]>>
    ELSE <<SelectSeq(ReadDir(dir)[1], LAMBDA name : Ext(name) = sDotGif), "nil">>

\* generateRequest of a query
GenerateRequestOf(r) == [From |-> Get(Query(r), kFrom)]

\* a slip: nothing required of the request
GenerateValidate_Nothing(r) == TRUE

\* generateRequest.Validate
GenerateValidate(r) == Required(r.From)

\* a slip: the error of the listing not looked at
ListFailed_Ignored(err) == FALSE

\* if err != nil { http.Error(w, "Not found", 404); return }
ListFailed(err) == err # "nil"

\* for _, hdr := range acceptHeaders { if strings.Contains(hdr, "/json") ... }
RECURSIVE WantsJson(_)
WantsJson(acceptHeaders) ==
    IF acceptHeaders = <<>> THEN FALSE
    ELSE IF Contains(Head(acceptHeaders), sSlashJson) THEN TRUE
    ELSE WantsJson(Tail(acceptHeaders))

\* h.meme.ImageExists(req.From) over FindImage, or h.imageExists(req.From):
\* <<call, path, exists>>
FormLookup(from, fault) ==
    IF impl = "MemeHandler"
    THEN IF IsNotExist(OsStat(Join("srcPath", Str(from)), fault))
         THEN <<"Stat", EmptyPath, FALSE>>
         ELSE <<"Stat", Join("srcPath", Str(from)), TRUE>>
    ELSE <<"FindImage", FindImage(from, fault)[1], FindImage(from, fault)[2] = "nil">>

\* h.templates.ExecuteTemplate(w, name, data) and the http.Error that
\* follows its error: what is written to the response.  Once output has
\* begun the status 200 has gone out, and http.Error only adds to the body.
ExecuteTemplate(outcome) ==
    IF outcome = "nil" THEN <<[status |-> "OK", ref |-> <<"text/html">>]>>
    ELSE IF outcome = "errBeforeOutput"
    THEN <<[status |-> "InternalServerError", ref |-> <<>>]>>
    ELSE <<[status |-> "OK", ref |-> <<"text/html">>],
           [status |-> "body", ref |-> <<>>]>>

\* jsonBanner: the content type set, the list marshalled and written
jsonBanner(list) ==
    <<[status |-> "OK", ref |-> <<"application/json", list>>]>>

\* every path the page requests can name
PagePaths == {Join("srcPath", Str(n)) : n \in DirNames \cup {sMissing}}

InitPages ==
    /\ impl \in {"ApiHandler", "MemeHandler"}
    /\ NoRequest
    /\ srcDir \in Dirs
    /\ fs = [p \in Paths \cup PagePaths |->
               IF p.dir = "srcPath" /\ p.name.ext \in srcDir.names
               THEN <<[complete |-> TRUE, gif |-> Gif(p.name.ext, sEmpty, sEmpty)]>>
               ELSE <<>>]
    /\ PagesIdle
    /\ DigestIdle
    /\ EngineIdle
    /\ FindIdle
    /\ OrigIdle
    /\ reqA = <<>> /\ reqB = <<>> /\ uidA = <<>> /\ uidB = <<>>

\* ListGifs: the listing, then 404, the list as JSON, or the banner page
ListGifs(q) ==
    /\ pc[q] = "idle"
    /\ \A p \in Reqs : p < q => pc[p] # "idle"
    /\ \E acceptHeaders \in AcceptHeaders, outcome \in TemplateOutcomes :
        LET got == IF impl = "MemeHandler" THEN allGifs(srcDir)
                   ELSE ListAllGifs(srcDir)
        IN /\ route' = [route EXCEPT ![q] = <<"ListGifs">>]
           /\ accept' = [accept EXCEPT ![q] = <<acceptHeaders>>]
           /\ gifs' = [gifs EXCEPT ![q] = <<got>>]
           /\ log' = [log EXCEPT ![q] =
                         Append(@, IF impl = "MemeHandler" THEN "ReadDir"
                                   ELSE "ListAllGifs")]
           /\ IF ListFailed(got[2])
              THEN /\ outcome = "nil"
                   /\ resp' = [resp EXCEPT ![q] =
                                  <<[status |-> "NotFound", ref |-> <<>>]>>]
                   /\ UNCHANGED rendered
              ELSE IF WantsJson(acceptHeaders)
              THEN /\ outcome = "nil"
                   /\ resp' = [resp EXCEPT ![q] = jsonBanner(got[1])]
                   /\ UNCHANGED rendered
              ELSE /\ resp' = [resp EXCEPT ![q] = ExecuteTemplate(outcome)]
                   /\ rendered' = [rendered EXCEPT ![q] = <<outcome>>]
    /\ pc' = [pc EXCEPT ![q] = "done"]
    /\ UNCHANGED <<impl, raw, srcImgPath, srcImgExists, memeVars, engineErr,
                   previewVars, uidVars, digestVars, frameVars, findVars,
                   origVars, srcDir>>

\* Form: newGenerateRequest, the lookup of the source, the form page
Form(q) ==
    /\ pc[q] = "idle"
    /\ \A p \in Reqs : p < q => pc[p] # "idle"
    /\ \E r \in FormQueries, fault \in BOOLEAN, outcome \in TemplateOutcomes :
        LET req == GenerateRequestOf(r)
            look == FormLookup(req.From, fault)
        IN /\ route' = [route EXCEPT ![q] = <<"Form">>]
           /\ raw' = [raw EXCEPT ![q] = r]
           /\ IF ~ GenerateValidate(req)
              THEN /\ ~ fault /\ outcome = "nil"
                   /\ resp' = [resp EXCEPT ![q] =
                                  <<[status |-> "BadRequest", ref |-> <<>>]>>]
                   /\ UNCHANGED <<log, srcImgPath, srcImgExists, rendered>>
              ELSE /\ log' = [log EXCEPT ![q] = Append(@, look[1])]
                   /\ srcImgPath' = [srcImgPath EXCEPT ![q] = <<look[2]>>]
                   /\ srcImgExists' = [srcImgExists EXCEPT ![q] = <<look[3]>>]
                   /\ IF ~ look[3]
                      THEN /\ outcome = "nil"
                           /\ resp' = [resp EXCEPT ![q] =
                                          <<[status |-> "NotFound", ref |-> <<>>]>>]
                           /\ UNCHANGED rendered
                      ELSE /\ resp' = [resp EXCEPT ![q] = ExecuteTemplate(outcome)]
                           /\ rendered' = [rendered EXCEPT ![q] = <<outcome>>]
    /\ pc' = [pc EXCEPT ![q] = "done"]
    /\ UNCHANGED <<impl, memeVars, engineErr, previewVars, uidVars, digestVars,
                   frameVars, findVars, origVars, srcDir, accept, gifs>>

NextPages ==
    \E q \in Reqs :
        \/ ListGifs(q)
        \/ Form(q)

SpecPages == InitPages /\ [][NextPages]_vars

\* The server with both routes: requests for a meme and requests for the
\* listing, over the same two directories
NextServer ==
    \E q \in Reqs :
        \/ MemeFromRequest(q)
        \/ MemeExists(q)
        \/ GenerateMeme(q)
        \/ SaveEncode(q)
        \/ ListGifs(q)

SpecServer == Init /\ [][NextServer]_vars

\* ------------------------------------------------------------------------
\* The compositing engine: GenerateMeme(sourceAnimation, topText,
\* bottomText, fontName).  The source is decoded into its frames, each
\* frame is captioned by a task of its own, the tasks end in any order, and
\* the output is assembled from their results.
\* ------------------------------------------------------------------------

\* the frames a source can be made of: pixel data and display delay
Frames == {[pix |-> p, delay |-> d] : p \in {1, 2}, d \in {2, 10}}

\* the sources tried: every animation of up to MaxFrames frames, and a file
\* that is not an animation
Sources ==
    {[valid |-> TRUE, frames |-> f] :
        f \in UNION {[1..n -> Frames] : n \in 1..MaxFrames}}
    \cup {[valid |-> FALSE, frames |-> <<>>]}

\* the captions tried: a top caption alone, both captions
Captions == {[top |-> sA, bottom |-> sEmpty], [top |-> sA, bottom |-> sB]}

\* a slip: the captioned frame built anew, its delay left at zero
CaptionFrame_NoDelay(frame, caps) ==
    [pix |-> [base |-> frame.pix, top |-> caps.top, bottom |-> caps.bottom],
     delay |-> 0]

\* one frame captioned: the captions drawn on its pixels, its delay kept
CaptionFrame(frame, caps) ==
    [pix |-> [base |-> frame.pix, top |-> caps.top, bottom |-> caps.bottom],
     delay |-> frame.delay]

\* a slip: the result put after those of the tasks that ended earlier
Reassemble_ByCompletion(results, i, frame) ==
    LET free == {j \in DOMAIN results : results[j] = <<>>}
    IN [results EXCEPT ![CHOOSE j \in free : \A k \in free : j <= k] = <<frame>>]

\* the result of the task of frame i put at index i
Reassemble(results, i, frame) == [results EXCEPT ![i] = <<frame>>]

InitEngine ==
    /\ impl \in {"ApiHandler", "MemeService"}
    /\ Idle
    /\ DigestIdle
    /\ NoPages
    /\ FindIdle
    /\ OrigIdle
    /\ reqA = <<>> /\ reqB = <<>> /\ uidA = <<>> /\ uidB = <<>>
    /\ genPc = "decode"
    /\ genSrc \in Sources
    /\ genCaps \in Captions
    /\ slots = <<>> /\ order = <<>> /\ genOut = <<>>

\* the source decoded into its ordered frames, or DecodeError
Decode ==
    /\ genPc = "decode"
    /\ IF genSrc.valid
       THEN /\ genPc' = "frames"
            /\ slots' = [i \in DOMAIN genSrc.frames |-> <<>>]
       ELSE /\ genPc' = "DecodeError"
            /\ UNCHANGED slots
    /\ UNCHANGED <<impl, reqVars, uidVars, digestVars, pageVars, findVars, origVars,
                   genSrc, genCaps, order, genOut>>

\* the task of frame i ends and hands in its frame
FrameDone(i) ==
    /\ genPc = "frames"
    /\ i \in DOMAIN genSrc.frames
    /\ i \notin {order[k] : k \in DOMAIN order}
    /\ slots' = Reassemble(slots, i, CaptionFrame(genSrc.frames[i], genCaps))
    /\ order' = Append(order, i)
    /\ UNCHANGED <<impl, reqVars, uidVars, digestVars, pageVars, findVars, origVars,
                   genPc, genSrc, genCaps, genOut>>

\* every task has ended: the output animation
Assemble ==
    /\ genPc = "frames"
    /\ Len(order) = Len(genSrc.frames)
    /\ genOut' = <<[i \in DOMAIN slots |-> slots[i][1]]>>
    /\ genPc' = "done"
    /\ UNCHANGED <<impl, reqVars, uidVars, digestVars, pageVars, findVars, origVars,
                   genSrc, genCaps, slots, order>>

NextEngine ==
    \/ Decode
    \/ \E i \in 1..MaxFrames : FrameDone(i)
    \/ Assemble

SpecEngine == InitEngine /\ [][NextEngine]_vars

\* ------------------------------------------------------------------------
\* FsImageGateway.find taken alone, and what ImageExists and MemeExists make
\* of its result
\* ------------------------------------------------------------------------

\* the paths at which earlier requests may have saved a meme
SavedPaths ==
    {Join("dstPath", UID(r)) :
        r \in {m \in MemeQueries : /\ Validate(MemeRequestOf(m))
                                   /\ MemeRequestOf(m).From \in SrcFiles}}

\* the file system after the memes at the paths of S were saved
FsWith(S) ==
    [p \in Paths |->
        IF p.dir = "srcPath" /\ p.name \in {Str(n) : n \in SrcFiles}
        THEN <<[complete |-> TRUE, gif |-> Gif(p.name.ext, sEmpty, sEmpty)]>>
        ELSE IF p \in S
        THEN <<[complete |-> TRUE, gif |-> Gif(sEarth, sA, sEmpty)]>>
        ELSE <<>>]

InitFind ==
    /\ impl = "ApiHandler"
    /\ NoRequest
    /\ fs \in {FsWith(S) : S \in SUBSET SavedPaths}
    /\ SideIdle
    /\ reqA = <<>> /\ reqB = <<>> /\ uidA = <<>> /\ uidB = <<>>

\* g.find(imgFullPath), then exists := true; if err != nil { exists = false }
CallFind ==
    /\ findArg = <<>>
    /\ \E p \in Paths, fault \in BOOLEAN :
        /\ findArg' = <<p>>
        /\ findRet' = <<[stat |-> OsStat(p, fault),
                         path |-> find(p, fault)[1],
                         err |-> find(p, fault)[2],
                         exists |-> ErrIsNil(find(p, fault)[2])]>>
    /\ UNCHANGED <<impl, reqVars, uidVars, digestVars, pageVars, frameVars,
                   origVars>>

NextFind == CallFind

SpecFind == InitFind /\ [][NextFind]_vars

\* ------------------------------------------------------------------------
\* The original MemeHandler.MemeFromRequest, run for comparison: the request
\* that ApiHandler has served is served once more by the original handler,
\* over directories that hold what ApiHandler's held at the start.
\* ------------------------------------------------------------------------

\* a query with its source in place, and the two names under which its meme
\* may be in the output directory at the start
StoredQuery == <<<<kFrom, sEarth>>, <<kTop, sA>>>>

StoredNames ==
    {Join("dstPath", UID(StoredQuery)), Join("dstPath", GifName(UID(StoredQuery)))}

InitRefactor ==
    /\ impl = "ApiHandler"
    /\ NoRequest
    /\ fs \in {FsWith(S) : S \in SUBSET StoredNames}
    /\ fsOrig = fs
    /\ origResp = <<>>
    /\ DigestIdle /\ NoPages /\ EngineIdle /\ FindIdle
    /\ reqA = <<>> /\ reqB = <<>> /\ uidA = <<>> /\ uidB = <<>>

\* os.Stat on the original handler's directories
OrigStat(path, fault) ==
    IF fault THEN "EACCES" ELSE IF fsOrig[path] # <<>> THEN "nil" ELSE "ENOENT"

\* MemeHandler.imageExists: <<path, exists>>
MemeHandler_imageExists(imageName, fault) ==
    IF IsNotExist(OrigStat(Join("srcPath", Str(imageName)), fault))
    THEN <<EmptyPath, FALSE>>
    ELSE <<Join("srcPath", Str(imageName)), TRUE>>

\* MemeHandler.memeExists: <<fullPath, exists>>
MemeHandler_memeExists(u, fault) ==
    <<Join("dstPath", GifName(u)),
      ~ IsNotExist(OrigStat(Join("dstPath", GifName(u)), fault))>>

\* what the original handler writes: status, Location, and whether anything
\* failed underneath it
OrigAnswer(status, ref, faulty) ==
    origResp' = <<[status |-> status, ref |-> ref, faulty |-> faulty]>>

\* MemeHandler.MemeFromRequest, generateMeme and saveImage, the whole
\* handler in one step, for the request that ApiHandler has served
MemeHandler_MemeFromRequest ==
    /\ pc[1] = "done"
    /\ origResp = <<>>
    /\ \E f1 \in BOOLEAN, f2 \in BOOLEAN, engineOk \in BOOLEAN,
          createOk \in BOOLEAN, ok \in BOOLEAN :
        LET req == MemeRequestOf(raw[1])
            src == MemeHandler_imageExists(req.From, f1)
            u == MemeHandler_UID(raw[1])
            dst == MemeHandler_memeExists(u, f2)
            faulty == f1 \/ f2 \/ ~ engineOk \/ ~ createOk \/ ~ ok
            redirect == <<[url |-> "MemeURL", name |-> GifName(u)]>>
        IN IF ~ Validate(req)
           THEN OrigAnswer("BadRequest", <<>>, faulty) /\ UNCHANGED fsOrig
           ELSE IF ~ src[2]
           THEN OrigAnswer("NotFound", <<>>, faulty) /\ UNCHANGED fsOrig
           ELSE IF dst[2]
           THEN OrigAnswer("PermanentRedirect", redirect, faulty)
                /\ UNCHANGED fsOrig
           ELSE IF ~ engineOk \/ fsOrig[src[1]] = <<>> \/ ~ createOk
           THEN OrigAnswer("InternalServerError", <<>>, faulty)
                /\ UNCHANGED fsOrig
           ELSE /\ fsOrig' = [fsOrig EXCEPT ![dst[1]] =
                                 <<[complete |-> ok, gif |-> req]>>]
                /\ IF ok
                   THEN OrigAnswer("PermanentRedirect", redirect, faulty)
                   ELSE OrigAnswer("InternalServerError", <<>>, faulty)
    /\ UNCHANGED <<impl, reqVars, uidVars, digestVars, pageVars, frameVars,
                   findVars>>

NextRefactor ==
    \/ MemeFromRequest(1)
    \/ MemeExists(1)
    \/ GenerateMeme(1)
    \/ SaveEncode(1)
    \/ MemeHandler_MemeFromRequest

SpecRefactor == InitRefactor /\ [][NextRefactor]_vars

\* ------------------------------------------------------------------------
\* Properties
\* ------------------------------------------------------------------------

\* request q has called op (a gateway operation or the engine)
Called(q, op) == \E i \in DOMAIN log[q] : log[q][i] = op

\* the lookup of q has been made and found a file on disk
SawFile(q) == seen[q] # <<>> /\ seen[q][1] # <<>>

\* the lookup of q has been made and found no file on disk
SawNothing(q) == seen[q] # <<>> /\ seen[q][1] = <<>>

\* two queries carry the same parameters: r.URL.Query() is the same map
SameParameters(r1, r2) == Query(r1) = Query(r2)

DstPaths == {p \in DOMAIN fs : p.dir = "dstPath"}

Complete(p) == Exists(p) /\ fs[p][1].complete

\* C1: whenever the lookup for the computed identity reports that the
\* artifact exists, the request ends successfully in that very step, and
\* neither the engine nor Save is ever called for it.
C1_HitSkipsGeneration ==
    \A q \in Reqs :
        gifExists[q] = <<TRUE>> =>
            /\ pc[q] = "done"
            /\ Succeeded(q)
            /\ ~ Called(q, "Engine")
            /\ ~ Called(q, "Save")

C1_Witness ==
    \E q \in Reqs : gifExists[q] = <<TRUE>> /\ SawFile(q) /\ pc[q] = "done"

\* C2: a request that arrives after a request with the same parameters has
\* succeeded with the artifact on disk (it saved it, or found it) is a cache
\* hit: no generation, no Save, and the same reference as the earlier one.
C2_LaterRequestsHit ==
    \A p \in Reqs, q \in Reqs :
        ( /\ p \in before[q]
          /\ SameParameters(raw[p], raw[q])
          /\ (Called(p, "Save") \/ SawFile(p))
          /\ gifExists[q] # <<>> )
        => /\ gifExists[q] = <<TRUE>>
           /\ ~ Called(q, "Engine")
           /\ ~ Called(q, "Save")
           /\ pc[q] = "done"
           /\ resp[q] = resp[p]

C2_Witness ==
    \E p \in Reqs, q \in Reqs :
        /\ p \in before[q]
        /\ raw[p] # raw[q]
        /\ SameParameters(raw[p], raw[q])
        /\ Called(p, "Save")
        /\ pc[q] = "done"

\* C3 (as claimed): once all requests sharing one identity have finished
\* successfully, each having saved the artifact or found it on disk,
\* exactly one file is stored for that identity, it is complete, and every
\* response references that file.
C3_Claim ==
    ( /\ \A q \in Reqs : pc[q] = "done" /\ Succeeded(q)
      /\ \A q \in Reqs : uid[q] # <<>> /\ uid[q] = uid[1]
      /\ \A q \in Reqs : Called(q, "Save") \/ SawFile(q) )
    => LET files == {p \in DstPaths : Exists(p) /\ p.name.hex = uid[1][1].hex}
       IN /\ Cardinality(files) = 1
          /\ \A f \in files :
                /\ fs[f][1].complete
                /\ \A q \in Reqs :
                      /\ resp[q][1].ref # <<>>
                      /\ resp[q][1].ref[1].name = f.name

\* C4 (as claimed): a file that the lookup reports as existing is a
\* completely written artifact.
C4_Claim ==
    \A q \in Reqs :
        (gifExists[q] = <<TRUE>> /\ SawFile(q)) => seen[q][1][1].complete

\* C5 (as claimed): when Save fails the request ends in an error without a
\* reference, and no file is left at the path it was saving to (no other
\* request having written there).
C5_Claim ==
    \A q \in Reqs :
        ( /\ pc[q] = "done"
          /\ Called(q, "Save")
          /\ ~ Succeeded(q)
          /\ \A p \in Reqs \ {q} : ~ Called(p, "Save") )
        => /\ resp[q][1].ref = <<>>
           /\ ~ Exists(dstGifPath[q][1])

\* C6 (as claimed): once a Save has completed, no later step of any request
\* creates, truncates or rewrites the file.
C6_Claim ==
    [][\A p \in DstPaths : Complete(p) => fs'[p] = fs[p]]_vars

\* C6 (amended): a completely saved file is created anew, truncated or
\* rewritten only by a request whose own cache lookup had found no file at
\* that path, i.e. one that was already in flight before the file was
\* created; a request whose lookup comes once the file is there never
\* writes it.
C6_OnlyEarlierMissRewrites ==
    [][\A p \in DstPaths :
          (Complete(p) /\ fs'[p] # fs[p]) =>
              \E q \in Reqs :
                  /\ pc'[q] # pc[q]
                  /\ dstGifPath[q] = <<p>>
                  /\ SawNothing(q)]_vars

C6_Witness ==
    \E p \in DstPaths, q \in Reqs, w \in Reqs :
        /\ Exists(p) /\ ~ fs[p][1].complete
        /\ Succeeded(q) /\ Called(q, "Save") /\ dstGifPath[q] = <<p>>
        /\ pc[w] = "EncodeAll" /\ dstGifPath[w] = <<p>>

\* the parameters of a query other than from, top and bottom
Extras(r) ==
    LET v == Query(r)
    IN [k \in DOMAIN v \ {kFrom, kTop, kBottom} |-> v[k]]

C10_ValidationAccepts ==
    \A q \in Reqs :
        pc[q] # "idle" =>
            LET r == MemeRequestOf(raw[q])
            IN (resp[q] # <<>> /\ resp[q][1].status = "BadRequest")
               <=> ~ (r.From # sEmpty /\ (r.Top # sEmpty \/ r.Bottom # sEmpty))

C10_Witness ==
    \E p \in Reqs, q \in Reqs :
        /\ resp[p] # <<>> /\ resp[p][1].status = "BadRequest"
        /\ MemeRequestOf(raw[p]).From # sEmpty
        /\ pc[q] = "MemeExists"
        /\ MemeRequestOf(raw[q]).Top = sEmpty
        /\ MemeRequestOf(raw[q]).Bottom # sEmpty

\* ---- UID alone (SpecUID) ----

\* how often pair x occurs in the query
Count(r, x) == Cardinality({i \in DOMAIN r : r[i] = x})

\* the two queries carry the same name/value pairs, in any order
SamePairs(r1, r2) ==
    /\ Len(r1) = Len(r2)
    /\ \A i \in DOMAIN r1 : Count(r1, r1[i]) = Count(r2, r1[i])

\* the values of every name come in the same order in both queries
SameValueOrder(r1, r2) ==
    \A i \in DOMAIN r1 : ValuesOf(r1, r1[i][1]) = ValuesOf(r2, r1[i][1])

\* C7 (as claimed): two requests carrying the same name/value pairs, in any
\* order, get equal identities.
C7_Claim ==
    (uidA # <<>> /\ SamePairs(reqA, reqB)) => uidA = uidB

\* C7 (amended): two requests carrying the same name/value pairs get equal
\* identities whenever the values of each name come in the same order in
\* both, whatever the order of the names.
C7_OrderIndependent ==
    (uidA # <<>> /\ SamePairs(reqA, reqB) /\ SameValueOrder(reqA, reqB))
    => uidA = uidB

C7_Witness ==
    /\ uidA # <<>> /\ uidA = uidB
    /\ reqA # reqB
    /\ SamePairs(reqA, reqB) /\ SameValueOrder(reqA, reqB)

\* the queries are pair by pair equal up to letter case, and not the same
\* set of pairs
DifferOnlyInCase(r1, r2) ==
    /\ Len(r1) = Len(r2)
    /\ \A i \in DOMAIN r1 :
          /\ ToLower(r1[i][1]) = ToLower(r2[i][1])
          /\ ToLower(r1[i][2]) = ToLower(r2[i][2])
    /\ {r1[i] : i \in DOMAIN r1} # {r2[i] : i \in DOMAIN r2}

\* C8: two requests whose parameters differ only in the letter case of a
\* name or of a value get different identities.
C8_CaseSensitive ==
    (uidA # <<>> /\ DifferOnlyInCase(reqA, reqB)) => uidA # uidB

C8_Witness ==
    /\ uidA # <<>> /\ uidA # uidB
    /\ DifferOnlyInCase(reqA, reqB)
    /\ \E i \in DOMAIN reqA : reqA[i][1] = reqB[i][1] /\ reqA[i][2] # reqB[i][2]

\* ---- the meme pipeline, errors and references (Spec) ----

\* C11: a meme request that fails validation (no 'from', or neither
\* caption) ends with 400 before anything else happens: no gateway
\* operation and no engine call is made for it and no identity is computed.
C11_InvalidBeforeGateway ==
    \A q \in Reqs :
        pc[q] # "idle" =>
            LET r == MemeRequestOf(raw[q])
            IN (r.From = sEmpty \/ (r.Top = sEmpty /\ r.Bottom = sEmpty)) =>
                  /\ pc[q] = "done"
                  /\ resp[q] = <<[status |-> "BadRequest", ref |-> <<>>]>>
                  /\ log[q] = <<>>
                  /\ uid[q] = <<>>
                  /\ srcImgPath[q] = <<>>

C11_Witness ==
    \E q \in Reqs :
        /\ pc[q] = "done" /\ log[q] = <<>>
        /\ MemeRequestOf(raw[q]).From = sEmpty
        /\ MemeRequestOf(raw[q]).Top # sEmpty
        /\ MemeRequestOf(raw[q]).Bottom # sEmpty

\* C12: when the gateway reports that the source of a valid request is not
\* there, the request ends at once with 404 (an error, in the service):
\* FindImage is the only call made for it, no identity is computed, and
\* the response carries no reference.
C12_SourceNotFound ==
    \A q \in Reqs :
        srcImgExists[q] = <<FALSE>> =>
            /\ pc[q] = "done"
            /\ resp[q] = <<[status |-> IF impl = "MemeService" THEN "error"
                                       ELSE "NotFound",
                            ref |-> <<>>]>>
            /\ uid[q] = <<>>
            /\ log[q] = <<"FindImage">>

C12_Witness ==
    \E q \in Reqs :
        /\ srcImgExists[q] = <<FALSE>>
        /\ Validate(MemeRequestOf(raw[q]))
        /\ MemeRequestOf(raw[q]).From = sMissing
        /\ pc[q] = "done"

C17_Claim ==
    \A q \in Reqs :
        (impl = "MemeService" /\ Succeeded(q)) =>
            /\ resp[q][1].ref # <<>>
            /\ resp[q][1].ref[1].name = GifName(uid[q][1])

\* C18 (as claimed): after a miss that ends successfully in the handler,
\* the name looked up by FindMeme, the name of the file Save wrote and the
\* file name of the redirect are all <identity>.gif.
C18_Claim ==
    \A q \in Reqs :
        (impl = "ApiHandler" /\ Succeeded(q) /\ Called(q, "Save")) =>
            /\ dstGifPath[q][1] = Join("dstPath", GifName(uid[q][1]))
            /\ Exists(Join("dstPath", GifName(uid[q][1])))
            /\ resp[q][1].ref[1].name = GifName(uid[q][1])

\* C19: when the engine fails on a miss the request ends with 500 (an
\* error, in the service) and no reference, Save is not called for it, and
\* nothing is at the path of its identity unless another request has
\* called Save for that path.
C19_EngineFailure ==
    \A q \in Reqs :
        engineErr[q] = <<TRUE>> =>
            /\ pc[q] = "done"
            /\ resp[q] = <<[status |-> IF impl = "MemeService" THEN "error"
                                       ELSE "InternalServerError",
                            ref |-> <<>>]>>
            /\ ~ Called(q, "Save")
            /\ (\A w \in Reqs \ {q} :
                    ~ (Called(w, "Save") /\ dstGifPath[w] = dstGifPath[q]))
               => ~ Exists(dstGifPath[q][1])

C19_Witness ==
    \E q \in Reqs :
        /\ engineErr[q] = <<TRUE>>
        /\ gifExists[q] = <<FALSE>>
        /\ Exists(srcImgPath[q][1])
        /\ pc[q] = "done"

\* ---- the preview handlers (SpecPreview) ----

\* the handler has written an error to the response of q
ErrorWritten(q) ==
    \E i \in DOMAIN resp[q] :
        resp[q][i].status \in {"BadRequest", "NotFound", "InternalServerError",
                               "error"}

\* the thumbnail, written as image/jpeg and nothing else
Jpeg == <<[status |-> "OK", ref |-> <<"image/jpeg">>]>>

\* the parameters of the preview request pass as the claim describes them:
\* 'from' is there, width and height are there and are integers
PreviewParametersValid(r) ==
    /\ r.From # sEmpty
    /\ r.Width # sEmpty /\ IsInt(r.Width)
    /\ r.Height # sEmpty /\ IsInt(r.Height)

\* C13 (as claimed): the engine's Preview is never invoked with a width or
\* a height of zero.
C13_Claim ==
    \A q \in Reqs :
        thumb[q] # <<>> => thumb[q][1].Width > 0 /\ thumb[q][1].Height > 0

\* C14 (as claimed): in ApiHandler.Preview, bad parameters are answered 400
\* before any gateway call, an unknown source 404, and valid parameters
\* with a source that exists 200 with content type image/jpeg.
C14_Claim ==
    \A q \in Reqs :
        (impl = "ApiHandler" /\ pc[q] = "done") =>
            IF ~ PreviewParametersValid(PreviewRequestOf(raw[q]))
            THEN resp[q] = <<[status |-> "BadRequest", ref |-> <<>>]>> /\ log[q] = <<>>
            ELSE IF srcImgExists[q] = <<FALSE>>
            THEN resp[q] = <<[status |-> "NotFound", ref |-> <<>>]>>
            ELSE Exists(srcImgPath[q][1]) => resp[q] = Jpeg

\* C14 (amended): bad parameters are answered 400 before any gateway call
\* and a source the gateway does not find 404; with valid parameters and a
\* source that is found the request goes to the engine, and is answered
\* 200 with content type image/jpeg when the engine renders the thumbnail
\* and 500 when the engine fails.
C14_PreviewAnswers ==
    \A q \in Reqs :
        (impl = "ApiHandler" /\ pc[q] # "idle") =>
            IF ~ PreviewParametersValid(PreviewRequestOf(raw[q]))
            THEN /\ pc[q] = "done"
                 /\ resp[q] = <<[status |-> "BadRequest", ref |-> <<>>]>>
                 /\ log[q] = <<>>
            ELSE IF srcImgExists[q] = <<FALSE>>
            THEN /\ pc[q] = "done"
                 /\ resp[q] = <<[status |-> "NotFound", ref |-> <<>>]>>
            ELSE pc[q] = "done" =>
                    \/ engineErr[q] = <<FALSE>> /\ resp[q] = Jpeg
                    \/ /\ engineErr[q] = <<TRUE>>
                       /\ resp[q] = <<[status |-> "InternalServerError",
                                       ref |-> <<>>]>>

C14_Witness ==
    \E p \in Reqs, q \in Reqs :
        /\ impl = "ApiHandler"
        /\ resp[p] = Jpeg
        /\ engineErr[q] = <<TRUE>> /\ Exists(srcImgPath[q][1]) /\ pc[q] = "done"

\* C15: whatever its outcome, a preview request never calls FindMeme or
\* Save, and no artifact is persisted by it.
C15_PreviewNeverCached ==
    /\ \A q \in Reqs : ~ Called(q, "FindMeme") /\ ~ Called(q, "Save")
    /\ \A p \in DstPaths : ~ Exists(p)

C15_Witness ==
    \E p \in Reqs, q \in Reqs :
        /\ pc[p] = "done" /\ Called(p, "Preview") /\ thumb[p] # <<>>
        /\ pc[q] = "done" /\ ErrorWritten(q)

\* C20 (as claimed): once a handler has written an error for a request it
\* takes no further step for it: no further call, no further write to the
\* response.
C20_Claim ==
    [][\A q \in Reqs :
          ErrorWritten(q) =>
              /\ pc'[q] = pc[q]
              /\ log'[q] = log[q]
              /\ resp'[q] = resp[q]]_vars

\* ------------------------------------------------------------------------
\* The gateway's lookups taken alone
\* ------------------------------------------------------------------------

\* C21 (as claimed): a lookup of a name for which no file exists returns an
\* error together with the empty path; a lookup of a name that exists
\* returns no error and a path that contains the name.
C21_Claim ==
    \A q \in Reqs :
        /\ srcImgPath[q] # <<>> =>
              LET p == Join("srcPath", Str(MemeRequestOf(raw[q]).From))
              IN IF Exists(p)
                 THEN srcImgExists[q] = <<TRUE>> /\ srcImgPath[q][1].name = p.name
                 ELSE srcImgExists[q] = <<FALSE>> /\ srcImgPath[q] = <<EmptyPath>>
        /\ dstGifPath[q] # <<>> =>
              IF seen[q] # << <<>> >>
              THEN /\ gifExists[q] = <<TRUE>>
                   /\ dstGifPath[q][1].name = MemeName(uid[q][1])
              ELSE gifExists[q] = <<FALSE>> /\ dstGifPath[q] = <<EmptyPath>>

\* ------------------------------------------------------------------------
\* The order of the gateway operations of one request
\* ------------------------------------------------------------------------

\* the calls that request q made to the gateway, in order
GatewayCalls(q) ==
    SelectSeq(log[q], LAMBDA op : op \in {"FindImage", "FindMeme", "Save"})

IsPrefix(s, t) == Len(s) <= Len(t) /\ s = SubSeq(t, 1, Len(s))

\* C28: the gateway calls of a request are a prefix of FindImage, FindMeme,
\* Save; FindMeme follows a FindImage that found the source, Save follows a
\* FindMeme that missed and an engine that succeeded, and a request that
\* ends well after a miss has made each of the three calls exactly once.
C28_GatewayOrder ==
    \A q \in Reqs :
        /\ IsPrefix(GatewayCalls(q), <<"FindImage", "FindMeme", "Save">>)
        /\ Called(q, "FindMeme") => srcImgExists[q] = <<TRUE>>
        /\ Called(q, "Save") =>
              gifExists[q] = <<FALSE>> /\ engineErr[q] = <<FALSE>>
        /\ (Succeeded(q) /\ gifExists[q] = <<FALSE>>) =>
              GatewayCalls(q) = <<"FindImage", "FindMeme", "Save">>

C28_Witness ==
    \E p \in Reqs, q \in Reqs :
        /\ Succeeded(p) /\ gifExists[p] = <<FALSE>>
        /\ GatewayCalls(p) = <<"FindImage", "FindMeme", "Save">>
        /\ Succeeded(q) /\ gifExists[q] = <<TRUE>>
        /\ GatewayCalls(q) = <<"FindImage", "FindMeme">>

\* ------------------------------------------------------------------------
\* Two requests for one identity at the same time
\* ------------------------------------------------------------------------

\* request q was told by its lookup that nothing is there, and has gone
\* past the engine without an error of the engine
MissedAndWentOn(q) ==
    /\ gifExists[q] = <<FALSE>>
    /\ pc[q] \in {"EncodeAll", "done"}
    /\ engineErr[q] # <<TRUE>>

\* C29: nothing makes one of two requests for the same identity wait for, or
\* reuse, the generation of the other: whenever two requests have both been
\* told of a miss at the same path and have gone on, both have run the
\* engine and both have called Save on that path.  The state of
\* C29_Witness, in which both looked up before either created the file, is
\* reachable.
C29_NoSingleFlight ==
    \A q \in Reqs, w \in Reqs :
        ( /\ q # w
          /\ MissedAndWentOn(q) /\ MissedAndWentOn(w)
          /\ dstGifPath[q] = dstGifPath[w] ) =>
            /\ Called(q, "Engine") /\ Called(q, "Save")
            /\ Called(w, "Engine") /\ Called(w, "Save")

C29_Witness ==
    \E p \in DstPaths, q \in Reqs, w \in Reqs :
        /\ q # w
        /\ uid[q] = uid[w] /\ dstGifPath[q] = <<p>> /\ dstGifPath[w] = <<p>>
        /\ SawNothing(q) /\ gifExists[q] = <<FALSE>>
        /\ SawNothing(w) /\ gifExists[w] = <<FALSE>>
        /\ before[q] = {} /\ before[w] = {}
        /\ Called(q, "Engine") /\ Called(q, "Save") /\ Succeeded(q)
        /\ Called(w, "Engine") /\ Called(w, "Save") /\ Succeeded(w)

\* the requests that have arrived and whose identity names path p
Sharing(p) ==
    {q \in Reqs :
        raw[q] # <<>> /\ Join("dstPath", MemeName(IdentityOf(raw[q]))) = p}

\* C30: once every request that shares an identity has ended well, and two
\* of them have called Save, the file at the identity's path is complete
\* and holds the animation that each of these requests generates: the
\* content does not depend on which Save came last.
C30_Converges ==
    \A q \in Reqs, w \in Reqs :
        ( /\ q # w
          /\ Succeeded(q) /\ Called(q, "Save")
          /\ Succeeded(w) /\ Called(w, "Save")
          /\ dstGifPath[q] = dstGifPath[w] ) =>
            LET p == dstGifPath[q][1]
            IN (\A r \in Sharing(p) : Succeeded(r)) =>
                  /\ Complete(p)
                  /\ \A r \in Sharing(p) : fs[p][1].gif = MemeRequestOf(raw[r])

C30_Witness ==
    \E p \in DstPaths, q \in Reqs, w \in Reqs :
        /\ q # w /\ raw[q] # raw[w]
        /\ Sharing(p) = {q, w}
        /\ Succeeded(q) /\ Called(q, "Save") /\ SawNothing(q)
        /\ Succeeded(w) /\ Called(w, "Save") /\ SawNothing(w)
        /\ Complete(p)

\* ------------------------------------------------------------------------
\* The format of the identity
\* ------------------------------------------------------------------------

\* the characters 0-9 and a-f
LowerHex == (48..57) \cup (97..102)

\* C25: for every input, the empty one included, and every digest,
\* CreateUID returns no error and an identity of 40 characters, each of
\* them one of 0-9 and a-f.
C25_IdentityFormat ==
    hexUID # <<>> =>
        /\ hexUID[1].err = "nil"
        /\ Len(hexUID[1].uid) = 40
        /\ \A i \in DOMAIN hexUID[1].uid : hexUID[1].uid[i] \in LowerHex

C25_Witness ==
    /\ hexUID # <<>>
    /\ queryString = sEmpty
    /\ bs[1] < 16 /\ bs[Size] > 159
    /\ Len(hexUID[1].uid) = 40

\* ------------------------------------------------------------------------
\* The listing and the pages
\* ------------------------------------------------------------------------

\* the name ends in a dot followed by g, i, f, each in either case
EndsInDotGif(name) ==
    /\ Len(name) >= 4
    /\ ToLower(SubSeq(name, Len(name) - 3, Len(name))) = sDotGif

\* the elements of a sequence
Range(s) == {s[i] : i \in DOMAIN s}

\* the status of the response: that of the first write
StatusOf(q) == resp[q][1].status

\* C22: FsImageGateway.ListAllGifs of a directory that can be read returns
\* no error and, each once, exactly the names of the entries that end in
\* .gif in either case; with no such entry the list is empty.
C22_ListsExactlyGifs ==
    \A q \in Reqs :
        (impl = "ApiHandler" /\ gifs[q] # <<>> /\ srcDir.readable) =>
            /\ gifs[q][1][2] = "nil"
            /\ Range(gifs[q][1][1]) = {n \in srcDir.names : EndsInDotGif(n)}
            /\ Len(gifs[q][1][1]) = Cardinality(Range(gifs[q][1][1]))

C22_Witness ==
    \E q \in Reqs :
        /\ impl = "ApiHandler"
        /\ {sEarth, sBGif, sCJpg} \subseteq srcDir.names
        /\ gifs[q] = <<<<<<sEarth, sBGif>>, "nil">>>>

\* C23: when the source directory cannot be read the listing returns an
\* error and the nil list, and ListGifs answers 404; when the listing
\* succeeds and a value of the Accept header contains "/json", ListGifs
\* answers 200 with content type application/json and the list.
C23_ListGifsAnswers ==
    \A q \in Reqs :
        route[q] = <<"ListGifs">> =>
            /\ ~ srcDir.readable =>
                  /\ gifs[q][1][1] = <<>> /\ gifs[q][1][2] # "nil"
                  /\ resp[q] = <<[status |-> "NotFound", ref |-> <<>>]>>
            /\ ( /\ srcDir.readable
                 /\ \E i \in DOMAIN accept[q][1] :
                       Contains(accept[q][1][i], sSlashJson) ) =>
                  /\ gifs[q][1][2] = "nil"
                  /\ Len(resp[q]) = 1
                  /\ StatusOf(q) = "OK"
                  /\ resp[q][1].ref = <<"application/json", gifs[q][1][1]>>

C23_Witness ==
    \E p \in Reqs, q \in Reqs :
        /\ route[p] = <<"ListGifs">> /\ accept[p] = <<<<sTextHtml, sTextJson>>>>
        /\ gifs[p] = <<<<<<>>, "nil">>>>
        /\ resp[p] = <<[status |-> "OK", ref |-> <<"application/json", <<>>>>]>>
        /\ route[q] = <<"ListGifs">> /\ accept[q] = <<<<sTextJson>>>>

\* C24 (as claimed): Form answers 400 without a call to the gateway when
\* 'from' is missing, 404 when the source is not found and 200 when it is
\* found; it calls FindImage at most once and never FindMeme or Save.
C24_Claim ==
    \A q \in Reqs :
        (impl = "ApiHandler" /\ route[q] = <<"Form">>) =>
            /\ IF GenerateRequestOf(raw[q]).From = sEmpty
               THEN StatusOf(q) = "BadRequest" /\ log[q] = <<>>
               ELSE IF srcImgExists[q] = <<FALSE>>
               THEN StatusOf(q) = "NotFound"
               ELSE StatusOf(q) = "OK"
            /\ log[q] \in {<<>>, <<"FindImage">>}

\* C24 (amended): Form answers 400 without a call to the gateway when
\* 'from' is missing and 404 when the source is not found; when it is
\* found Form executes the form template, and answers 200 unless the
\* template fails before any output, which is answered 500; it calls
\* FindImage at most once and never FindMeme or Save.
C24_FormAnswers ==
    \A q \in Reqs :
        (impl = "ApiHandler" /\ route[q] = <<"Form">>) =>
            /\ IF GenerateRequestOf(raw[q]).From = sEmpty
               THEN /\ resp[q] = <<[status |-> "BadRequest", ref |-> <<>>]>>
                    /\ log[q] = <<>>
               ELSE IF srcImgExists[q] = <<FALSE>>
               THEN /\ resp[q] = <<[status |-> "NotFound", ref |-> <<>>]>>
                    /\ log[q] = <<"FindImage">>
               ELSE /\ log[q] = <<"FindImage">>
                    /\ rendered[q] # <<>>
                    /\ IF rendered[q] = <<"errBeforeOutput">>
                       THEN resp[q] = <<[status |-> "InternalServerError",
                                         ref |-> <<>>]>>
                       ELSE StatusOf(q) = "OK"
            /\ log[q] \in {<<>>, <<"FindImage">>}

C24_Witness ==
    \E p \in Reqs, q \in Reqs :
        /\ impl = "ApiHandler"
        /\ route[p] = <<"Form">> /\ srcImgExists[p] = <<TRUE>>
        /\ rendered[p] = <<"errBeforeOutput">>
        /\ StatusOf(p) = "InternalServerError"
        /\ route[q] = <<"Form">> /\ srcImgExists[q] = <<TRUE>>
        /\ rendered[q] = <<"nil">> /\ StatusOf(q) = "OK"

\* ------------------------------------------------------------------------
\* The frames of a generated meme
\* ------------------------------------------------------------------------

\* C26: for every valid source, the animation that GenerateMeme puts out has
\* as many frames as the source, and the delay of each of its frames is
\* that of the frame of the source at the same index.
C26_FrameIntegrity ==
    genOut # <<>> =>
        /\ genSrc.valid
        /\ Len(genOut[1]) = Len(genSrc.frames)
        /\ \A i \in DOMAIN genOut[1] : genOut[1][i].delay = genSrc.frames[i].delay

C26_Witness ==
    /\ genOut # <<>>
    /\ Len(genOut[1]) = MaxFrames
    /\ \E i \in DOMAIN genSrc.frames, j \in DOMAIN genSrc.frames :
          genSrc.frames[i].delay # genSrc.frames[j].delay

\* C27: in whatever order the tasks of the frames end, the frame of the
\* output at index i is the captioned frame i of the source.
C27_ReassembledByIndex ==
    genOut # <<>> =>
        \A i \in DOMAIN genSrc.frames :
            genOut[1][i] = CaptionFrame(genSrc.frames[i], genCaps)

C27_Witness ==
    /\ genOut # <<>>
    /\ Len(order) = MaxFrames
    /\ order[1] = MaxFrames /\ order[MaxFrames] = 1
    /\ genSrc.frames[1] # genSrc.frames[MaxFrames]

\* ------------------------------------------------------------------------
\* Termination
\* ------------------------------------------------------------------------

\* the ways a request can end: the redirect, or one error
Outcomes ==
    {"PermanentRedirect", "BadRequest", "NotFound", "InternalServerError",
     "nil", "error"}

\* C31: provided every call returns, every request that has arrived comes
\* to its end, and a request that has ended has written exactly one
\* response: the redirect or one of the errors.
C31_Terminates ==
    /\ \A q \in Reqs : (pc[q] # "idle") ~> (pc[q] = "done")
    /\ [](\A q \in Reqs :
             pc[q] = "done" =>
                 Len(resp[q]) = 1 /\ resp[q][1].status \in Outcomes)

C31_Witness ==
    \E p \in Reqs, q \in Reqs :
        /\ \A r \in Reqs : pc[r] = "done"
        /\ Succeeded(p) /\ Called(p, "Save")
        /\ resp[q][1].status \in {"InternalServerError", "error"}
        /\ Called(q, "Save")

\* ------------------------------------------------------------------------
\* The path handed to Save
\* ------------------------------------------------------------------------

\* request q is between the two halves of Save: os.Create has returned
Saving(q) == pc[q] = "EncodeAll"

\* w arrived after q had ended well, and has looked up the name q looked up
LooksUpAfter(q, w) ==
    /\ q \in before[w]
    /\ dstGifPath[w] # <<>>
    /\ MemeName(uid[w][1]) = MemeName(uid[q][1])

FindImageErr(q) == gwErr[q][1]
FindMemeErr(q) == gwErr[q][2]

StatOutcomes == {"nil", "ENOENT", "EACCES"}

\* C34: find returns an error exactly when Stat reported that the file does
\* not exist, and then that error; for every other outcome of Stat, a
\* failure of another kind included, it returns no error, and the caller
\* takes the file to be there.  The path is returned in either case.
C34_ErrorOnlyWhenNotExist ==
    findRet # <<>> =>
        LET ret == findRet[1]
        IN /\ ret.stat \in StatOutcomes
           /\ ret.stat = "nil" => Exists(findArg[1])
           /\ ret.stat = "ENOENT" => ~ Exists(findArg[1])
           /\ ret.err # "nil" <=> ret.stat = "ENOENT"
           /\ ret.err # "nil" => ret.err = ret.stat
           /\ ret.exists <=> ret.stat # "ENOENT"
           /\ ret.path = findArg[1]

C34_Witness ==
    /\ findRet # <<>>
    /\ findRet[1].stat = "EACCES"
    /\ ~ Exists(findArg[1])
    /\ findRet[1].err = "nil" /\ findRet[1].exists

\* ------------------------------------------------------------------------
\* The refactored handler against the original one
\* ------------------------------------------------------------------------

\* the names of the files that a file system holds in the output directory
OutputNames(f) == {p.name : p \in {x \in DOMAIN f : x.dir = "dstPath" /\ f[x] # <<>>}}

\* nothing failed under ApiHandler: each Stat told the truth, the engine and
\* Save succeeded
ApiClean ==
    /\ srcImgExists[1] # <<>> => srcImgExists[1][1] = Exists(srcImgPath[1][1])
    /\ gifExists[1] # <<>> => gifExists[1][1] = SawFile(1)
    /\ engineErr[1] # <<TRUE>>
    /\ StatusOf(1) # "InternalServerError"

\* both handlers have served the request, and nothing failed under either
BothServed == pc[1] = "done" /\ origResp # <<>> /\ ApiClean /\ ~ origResp[1].faulty

\* C35 (as claimed): for every request and every initial content of the
\* directories, ApiHandler over FsImageGateway and the original MemeHandler
\* answer with the same status and the same Location and leave files of the
\* same names in the output directory.
C35_Claim ==
    BothServed =>
        /\ StatusOf(1) = origResp[1].status
        /\ resp[1][1].ref = origResp[1].ref
        /\ OutputNames(fs) = OutputNames(fsOrig)

\* ------------------------------------------------------------------------
\* What the handlers write
\* ------------------------------------------------------------------------

\* the gateway operation with which the step ends for request q
StepEndsWith(q, ops) ==
    /\ log'[q] # log[q]
    /\ log'[q][Len(log'[q])] \in ops

\* C36: no step changes the source directory, neither its entries nor a
\* file in it; a step that changes a file is the Save of a request, and the
\* file is at the path FindMeme returned to that request; a step that is a
\* FindImage, a FindMeme or a ListAllGifs changes no file at all.
C36_OnlySaveWrites ==
    [][/\ srcDir' = srcDir
       /\ \A p \in DOMAIN fs :
             fs'[p] # fs[p] =>
                 /\ p.dir = "dstPath"
                 /\ \E q \in Reqs :
                       /\ dstGifPath[q] = <<p>>
                       /\ pc[q] \in {"generateMeme", "EncodeAll"}
                       /\ pc'[q] # pc[q]
                       /\ \E i \in DOMAIN log'[q] : log'[q][i] = "Save"
       /\ \A q \in Reqs :
             StepEndsWith(q, {"FindImage", "FindMeme", "ListAllGifs"}) =>
                 fs' = fs]_vars

C36_Witness ==
    \E q \in Reqs, w \in Reqs :
        /\ Succeeded(q) /\ Called(q, "Save")
        /\ Complete(dstGifPath[q][1])
        /\ Complete(srcImgPath[q][1])
        /\ pc[w] = "done" /\ Called(w, "ListAllGifs")

====
